---- MODULE Spec2Model ----
(***************************************************************************)
(* AdjList (ABySS): find overlaps of exactly k-1 bases between contigs.    *)
(* The model follows src/AdjList/AdjList.cpp: option parsing, readContigs  *)
(* (one step per FASTA record), ContigID::lock, the loop that indexes the  *)
(* end sequences, the loop that adds the edges, and write_graph.           *)
(***************************************************************************)
EXTENDS Integers, Sequences, FiniteSets, Bags, TLC

\* ------------------------------------------------------------ bounds
MaxK == 3
MaxLen == 3
MaxRecords == 2
MaxFiles == 2
\* longest sequence fed to the runs that visit the loops in any order
MaxLenAnyOrder == 2

\* ------------------------------------------------------------ input
\* Symbols of the sequences that are fed to the program.  Sequences are
\* homogeneous: all nucleotides, or all colour-space digits.
Nucleotides == {"A", "T"}
Colours == {"0"}

RecordsUpTo(len) ==
    UNION {[1..n -> Nucleotides] : n \in 0..len}
        \cup UNION {[1..n -> Colours] : n \in 1..len}

Records == RecordsUpTo(MaxLen)

KValues == 0..MaxK

\* ------------------------------------------------------------ <cctype>
IsDigit(c) == c \in {"0", "1", "2", "3", "4", "5", "6", "7", "8", "9"}

IsAlpha(c) == c \in {"A", "C", "G", "T", "N"}

\* seq[0]; for an empty std::string this is the terminating '\0'.
FirstSymbol(seq) == IF seq = <<>> THEN "NUL" ELSE seq[1]

\* ------------------------------------------------------------ unsigned
\* 32-bit unsigned values as two 16-bit limbs <<hi, lo>>.
Limb == 65536

U32(n) == <<n \div Limb, n % Limb>>

UNeg(x) ==
    LET lo == (Limb - x[2]) % Limb
        hi == ((Limb - 1) - x[1] + (IF x[2] = 0 THEN 1 ELSE 0)) % Limb
    IN  <<hi, lo>>

UAdd(x, y) ==
    LET lo == x[2] + y[2]
        hi == x[1] + y[1] + (lo \div Limb)
    IN  <<hi % Limb, lo % Limb>>

\* Conversion of an unsigned value to int (two's complement).
ToInt(x) ==
    IF x[1] < Limb \div 2
    THEN x[1] * Limb + x[2]
    ELSE -(((Limb - 1) - x[1]) * Limb + ((Limb - 1) - x[2])) - 1

\* return -(opt::k + 1);
DistanceSlip(kk) == ToInt(UNeg(UAdd(U32(kk), U32(1))))

\* get(edge_distance_t, g, e): return -opt::k + 1;
Distance(kk) == ToInt(UAdd(UNeg(U32(kk)), U32(1)))

\* unsigned overlap = opt::k - 1; every call site has opt::k > 0.
Overlap(kk) == kk - 1

\* ------------------------------------------------------------ Kmer
Prefix(seq, n) == SubSeq(seq, 1, n)

Suffix(seq, n) == SubSeq(seq, Len(seq) - n + 1, Len(seq))

Complement(c) ==
    CASE c = "A" -> "T"
      [] c = "T" -> "A"
      [] c = "C" -> "G"
      [] c = "G" -> "C"
      [] OTHER -> c

ReverseComplement(s) == [i \in 1..Len(s) |-> Complement(s[Len(s) + 1 - i])]

\* ContigEndSeq(l, r)
ContigEndSeq(l, r) == [l |-> l, r |-> r]

\* ------------------------------------------------------------ ContigNode
ContigNode(id, sense) == [id |-> id, sense |-> sense]

\* operator~
Flip(u) == ContigNode(u.id, ~u.sense)

\* operator^(bool)
XorSense(u, s) == IF s THEN Flip(u) ELSE u

\* ------------------------------------------------------------ Graph
EmptyGraph == [vp |-> <<>>, out |-> <<>>]

NumContigs(gr) == Len(gr.vp)

Vertices(gr) == {ContigNode(i, s) : i \in 0..(NumContigs(gr) - 1), s \in BOOLEAN}

\* The n-th vertex of vertices(g): contig n/2 in sense n%2.
VertexAt(n) == ContigNode(n \div 2, n % 2 = 1)

\* add_vertex(vp, g): a contig in both orientations, without edges.
AddVertex(gr, vp) ==
    LET id == NumContigs(gr)
    IN  [vp  |-> Append(gr.vp, vp),
         out |-> gr.out @@ (ContigNode(id, FALSE) :> <<>>)
                        @@ (ContigNode(id, TRUE) :> <<>>)]

\* add_edge<DG>(u, v, g): the single edge u -> v.
AddEdge(gr, u, v) == [gr EXCEPT !.out[u] = Append(@, v)]

RECURSIVE AddEdges(_, _, _)
AddEdges(gr, u, targets) ==
    IF targets = <<>> THEN gr
    ELSE AddEdges(AddEdge(gr, u, Head(targets)), u, Tail(targets))

\* ------------------------------------------------------------ KmerMap
EmptyMap == <<>>

Keys(m) == DOMAIN m

\* hash_map::operator[]: a missing key is inserted with an empty vector.
Subscript(m, key) == IF key \in DOMAIN m THEN m ELSE m @@ (key :> <<>>)

PushBack(m, key, u) == [Subscript(m, key) EXCEPT ![key] = Append(@, u)]

\* ------------------------------------------------------------ state
VARIABLES
    pc,           \* position in main
    err,          \* the fatal error that ended the run, or "none"
    k,            \* opt::k
    kmerLength,   \* Kmer::setLength
    colourSpace,  \* opt::colourSpace
    pending,      \* input sources still to read: argc - optind, or 1 for "-"
    reading,      \* inside readContigs
    count,        \* readContigs: records read from the current source
    ingested,     \* ContigID dictionary: the sequences given an id, in id order
    eofs,         \* the values in.eof() had at the end of the sources
    locked,       \* ContigID::lock
    g,            \* the graph
    contigs,      \* vector<ContigEndSeq>
    ends,         \* vector<KmerMap> ends(2)
    indexed,      \* positions of contigs whose end sequences are indexed
    visited,      \* vertices whose edges have been added
    written       \* write_graph was called

vars == <<pc, err, k, kmerLength, colourSpace, pending, reading, count,
          ingested, eofs, locked, g, contigs, ends, indexed, visited, written>>

\* Number of calls of readContigs: one per FILE, or one for standard input.
NumSources(nargs) == IF nargs = 0 THEN 1 ELSE nargs

\* the iterator of the indexing loop, as a position of contigs
it == Cardinality(indexed)

\* the iterator of the edge loop, as a position of vertices(g)
itu == Cardinality(visited)

Init ==
    /\ pc = "parse"
    /\ err = "none"
    /\ k = 0
    /\ kmerLength = 0
    /\ colourSpace = FALSE
    /\ pending = 0
    /\ reading = FALSE
    /\ count = 0
    /\ ingested = <<>>
    /\ eofs = {}
    /\ locked = FALSE
    /\ g = EmptyGraph
    /\ contigs = <<>>
    /\ ends = [i \in {0, 1} |-> EmptyMap]
    /\ indexed = {}
    /\ visited = {}
    /\ written = FALSE

\* ------------------------------------------------------------ options
\* the check of opt::k left out
ConfigRejectsNoKCheck(kk, unknownOption) == unknownOption

\* if (opt::k <= 0) die = true;
ConfigRejects(kk, unknownOption) == unknownOption \/ kk <= 0

\* getopt_long loop and the checks after it.
ParseOptions ==
    /\ pc = "parse"
    /\ \E kk \in KValues, o \in {"none", "unknown", "help"}, n \in 0..MaxFiles :
        /\ k' = kk
        /\ pending' = NumSources(n)
        /\ IF o = "help"
           THEN pc' = "exited" /\ err' = err
           ELSE IF ConfigRejects(kk, o = "unknown")
                THEN pc' = "failed" /\ err' = "config"
                ELSE pc' = "setup" /\ err' = err
    /\ UNCHANGED <<kmerLength, colourSpace, reading, count, ingested,
                   eofs, locked, g, contigs, ends, indexed, visited, written>>

\* Kmer::setLength(opt::k - 1); Graph g; vector<ContigEndSeq> contigs;
SetUp ==
    /\ pc = "setup"
    /\ kmerLength' = Overlap(k)
    /\ g' = EmptyGraph
    /\ contigs' = <<>>
    /\ pc' = "ingest"
    /\ UNCHANGED <<err, k, colourSpace, pending, reading, count, ingested,
                   eofs, locked, ends, indexed, visited, written>>

\* ------------------------------------------------------------ readContigs
\* unsigned count = 0; FastaReader in(path)
OpenSource ==
    /\ pc = "ingest"
    /\ ~reading
    /\ pending > 0
    /\ reading' = TRUE
    /\ count' = 0
    /\ UNCHANGED <<pc, err, k, kmerLength, colourSpace, pending, ingested,
                   eofs, locked, g, contigs, ends, indexed, visited, written>>

\* The colour-space detection of the first record of a source.
DetectColourSpace(cnt, cs, seq) ==
    IF cnt = 0 THEN IsDigit(FirstSymbol(seq)) ELSE cs

\* The assertions on the first symbol of the later records of a source.
AlphabetAccepts(cnt, cs, seq) ==
    \/ cnt = 0
    \/ IF cs THEN IsDigit(FirstSymbol(seq)) ELSE IsAlpha(FirstSymbol(seq))

\* assert(seq.length() >= overlap);
LengthAcceptsOffByOne(seq, overlap) == Len(seq) >= overlap

\* assert(seq.length() > overlap);
LengthAccepts(seq, overlap) == Len(seq) > overlap

\* ContigEndSeq(Kmer(seq.substr(0, overlap)), Kmer(seq.substr(seq.length() - overlap)))
TerminalKmers(seq, overlap) ==
    ContigEndSeq(Prefix(seq, overlap), Suffix(seq, overlap))

\* One iteration of for (FastaRecord rec; in >> rec;), the record drawn
\* from the set recs.
ReadRecordFrom(recs) ==
    /\ pc = "ingest"
    /\ reading
    /\ Len(ingested) < MaxRecords
    /\ \E seq \in recs :
        /\ count' = count + 1
        /\ colourSpace' = DetectColourSpace(count, colourSpace, seq)
        /\ IF ~AlphabetAccepts(count, colourSpace, seq)
           THEN /\ pc' = "aborted"
                /\ err' = "alphabet"
                /\ UNCHANGED <<ingested, g, contigs>>
           ELSE /\ ingested' = Append(ingested, seq)
                /\ g' = AddVertex(g, Len(seq))
                /\ IF ~LengthAccepts(seq, Overlap(k))
                   THEN /\ pc' = "aborted"
                        /\ err' = "short"
                        /\ UNCHANGED contigs
                   ELSE /\ contigs' = Append(contigs, TerminalKmers(seq, Overlap(k)))
                        /\ UNCHANGED <<pc, err>>
    /\ UNCHANGED <<k, kmerLength, pending, reading, eofs, locked, ends,
                   indexed, visited, written>>

ReadRecord == ReadRecordFrom(Records)

\* The stream stops yielding records: assert(in.eof()), return to main,
\* next source or leave the loop.
EndOfSource ==
    /\ pc = "ingest"
    /\ reading
    /\ \E eof \in BOOLEAN :
        /\ eofs' = eofs \cup {eof}
        /\ IF eof
           THEN /\ reading' = FALSE
                /\ count' = 0
                /\ pending' = pending - 1
                /\ pc' = IF pending - 1 > 0 THEN "ingest" ELSE "lock"
                /\ err' = err
           ELSE /\ pc' = "aborted"
                /\ err' = "truncated"
                /\ UNCHANGED <<reading, count, pending>>
    /\ UNCHANGED <<k, kmerLength, colourSpace, ingested, locked, g, contigs,
                   ends, indexed, visited, written>>

\* ------------------------------------------------------------ main, continued
\* ContigID::lock() left out
LockLeftOut ==
    /\ pc = "lock"
    /\ ends' = [i \in {0, 1} |-> EmptyMap]
    /\ pc' = "index"
    /\ UNCHANGED <<err, k, kmerLength, colourSpace, pending, reading, count,
                   ingested, eofs, locked, g, contigs, indexed, visited, written>>

\* ContigID::lock(); vector<KmerMap> ends(2, KmerMap(2 * contigs.size()));
Lock ==
    /\ pc = "lock"
    /\ locked' = TRUE
    /\ ends' = [i \in {0, 1} |-> EmptyMap]
    /\ pc' = "index"
    /\ UNCHANGED <<err, k, kmerLength, colourSpace, pending, reading, count,
                   ingested, eofs, g, contigs, indexed, visited, written>>

\* ends[.][kmer] = vector(1, u) in place of push_back
Assign(m, key, u) == [Subscript(m, key) EXCEPT ![key] = <<u>>]

IndexInsertOverwrite(e, i, c) ==
    LET u  == ContigNode(i, FALSE)
        e1 == [e  EXCEPT ![0] = Assign(@, c.r, u)]
        e2 == [e1 EXCEPT ![1] = Assign(@, c.l, u)]
        e3 == [e2 EXCEPT ![0] = Assign(@, ReverseComplement(c.l), Flip(u))]
        e4 == [e3 EXCEPT ![1] = Assign(@, ReverseComplement(c.r), Flip(u))]
    IN  e4

\* the third insertion goes to ends[1] in place of ends[0]
IndexInsertWrongMap(e, i, c) ==
    LET u  == ContigNode(i, FALSE)
        e1 == [e  EXCEPT ![0] = PushBack(@, c.r, u)]
        e2 == [e1 EXCEPT ![1] = PushBack(@, c.l, u)]
        e3 == [e2 EXCEPT ![1] = PushBack(@, ReverseComplement(c.l), Flip(u))]
        e4 == [e3 EXCEPT ![1] = PushBack(@, ReverseComplement(c.r), Flip(u))]
    IN  e4

\* The body of the indexing loop for the contig at position i.
IndexInsert(e, i, c) ==
    LET u  == ContigNode(i, FALSE)
        e1 == [e  EXCEPT ![0] = PushBack(@, c.r, u)]
        e2 == [e1 EXCEPT ![1] = PushBack(@, c.l, u)]
        e3 == [e2 EXCEPT ![0] = PushBack(@, ReverseComplement(c.l), Flip(u))]
        e4 == [e3 EXCEPT ![1] = PushBack(@, ReverseComplement(c.r), Flip(u))]
    IN  e4

IndexAt(i) ==
    /\ ends' = IndexInsert(ends, i, contigs[i + 1])
    /\ indexed' = indexed \cup {i}
    /\ UNCHANGED <<pc, err, k, kmerLength, colourSpace, pending, reading,
                   count, ingested, eofs, locked, g, contigs, visited, written>>

\* for (it = contigs.begin(); it != contigs.end(); ++it)
IndexContig ==
    /\ pc = "index"
    /\ it < Len(contigs)
    /\ IndexAt(it)

\* it == contigs.end(); vit = vertices(g)
IndexDone ==
    /\ pc = "index"
    /\ it = Len(contigs)
    /\ pc' = "connect"
    /\ UNCHANGED <<err, k, kmerLength, colourSpace, pending, reading, count,
                   ingested, eofs, locked, g, contigs, ends, indexed, visited,
                   written>>

\* const Kmer& kmer = u.sense() ? contig.r : contig.l;
ProbeKmerSwapped(u, contig) == IF u.sense THEN contig.r ELSE contig.l

\* const Kmer& kmer = u.sense() ? contig.l : contig.r;
ProbeKmer(u, contig) == IF u.sense THEN contig.l ELSE contig.r

\* ends[!u.sense()]
ProbeIndex(u) == IF u.sense THEN 0 ELSE 1

\* add_edge<DG>(u, *itv, g)
EdgeTargetNoXor(v, u) == v

\* *itv ^ u.sense()
EdgeTarget(v, u) == XorSense(v, u.sense)

\* The body of the edge loop for the vertex u.
ConnectAt(u) ==
    LET contig == contigs[u.id + 1]
        kmer   == ProbeKmer(u, contig)
        e      == [ends EXCEPT ![ProbeIndex(u)] = Subscript(@, kmer)]
        edges  == e[ProbeIndex(u)][kmer]
        tgts   == [n \in 1..Len(edges) |-> EdgeTarget(edges[n], u)]
    IN  /\ ends' = e
        /\ g' = AddEdges(g, u, tgts)
        /\ visited' = visited \cup {u}
        /\ UNCHANGED <<pc, err, k, kmerLength, colourSpace, pending, reading,
                       count, ingested, eofs, locked, contigs, indexed, written>>

\* for (itu = vit.first; itu != vit.second; ++itu)
ConnectVertex ==
    /\ pc = "connect"
    /\ itu < 2 * NumContigs(g)
    /\ ConnectAt(VertexAt(itu))

ConnectDone ==
    /\ pc = "connect"
    /\ itu = 2 * NumContigs(g)
    /\ pc' = "output"
    /\ UNCHANGED <<err, k, kmerLength, colourSpace, pending, reading, count,
                   ingested, eofs, locked, g, contigs, ends, indexed, visited,
                   written>>

\* write_graph(cout, g, PROGRAM, commandLine); assert(cout.good());
WriteGraph ==
    /\ pc = "output"
    /\ written' = TRUE
    /\ \E good \in BOOLEAN :
        IF good
        THEN pc' = "done" /\ err' = err
        ELSE pc' = "aborted" /\ err' = "output"
    /\ UNCHANGED <<k, kmerLength, colourSpace, pending, reading, count,
                   ingested, eofs, locked, g, contigs, ends, indexed, visited>>

Next ==
    \/ ParseOptions
    \/ SetUp
    \/ OpenSource
    \/ ReadRecord
    \/ EndOfSource
    \/ Lock
    \/ IndexContig
    \/ IndexDone
    \/ ConnectVertex
    \/ ConnectDone
    \/ WriteGraph

Spec == Init /\ [][Next]_vars

\* ------------------------------------------------------------ any order
\* The two loops with their elements visited in any order.
ReadShortRecord == ReadRecordFrom(RecordsUpTo(MaxLenAnyOrder))

IndexAnyContig ==
    /\ pc = "index"
    /\ \E i \in (0..(Len(contigs) - 1)) \ indexed : IndexAt(i)

ConnectAnyVertex ==
    /\ pc = "connect"
    /\ \E u \in Vertices(g) \ visited : ConnectAt(u)

NextAnyOrder ==
    \/ ParseOptions
    \/ SetUp
    \/ OpenSource
    \/ ReadShortRecord
    \/ EndOfSource
    \/ Lock
    \/ IndexAnyContig
    \/ IndexDone
    \/ ConnectAnyVertex
    \/ ConnectDone
    \/ WriteGraph

SpecAnyOrder == Init /\ [][NextAnyOrder]_vars

\* ------------------------------------------------------------ properties
\* L = k - 1
L == Overlap(k)

\* The sequence of contig id read in the orientation sense: sense = TRUE
\* reads the reverse complement of the whole sequence.
Oriented(u) ==
    IF u.sense THEN ReverseComplement(ingested[u.id + 1])
    ELSE ingested[u.id + 1]

Range(s) == {s[n] : n \in DOMAIN s}

HasEdge(u, v) == v \in Range(g.out[u])

NoDuplicates(s) == \A m, n \in DOMAIN s : s[m] = s[n] => m = n

BagOfSeq(s) == [x \in Range(s) |-> Cardinality({n \in DOMAIN s : s[n] = x})]

SymbolClass(seq) ==
    IF IsDigit(FirstSymbol(seq)) THEN "numeric"
    ELSE IF IsAlpha(FirstSymbol(seq)) THEN "alphabetic" ELSE "other"

EdgePhase == pc \in {"connect", "output", "done"}

\* C1: after a successful run, for every ordered pair of oriented nodes
\* (A, sA), (B, sB), A = B and all four sense combinations included, the graph
\* has the edge (A, sA) -> (B, sB) iff the L-length suffix of A read in
\* orientation sA equals the L-length prefix of B read in orientation sB.
C1_EdgeIffOverlap ==
    pc = "done" =>
        \A u \in Vertices(g), v \in Vertices(g) :
            HasEdge(u, v) <=> Suffix(Oriented(u), L) = Prefix(Oriented(v), L)

C1_Witness ==
    /\ pc = "done"
    /\ k >= 2
    /\ \E u \in Vertices(g), v \in Vertices(g), w \in Vertices(g) :
        /\ u.id # v.id
        /\ u.sense
        /\ ~v.sense
        /\ HasEdge(u, v)
        /\ ~HasEdge(u, w)

\* C2: once the alphabet class is detected from the first record of the run,
\* a later record of the other class, from the same or a later source, aborts
\* the run: no run that ingested a numeric-first and an alphabetic-first
\* record reaches the edge phase.
C2_NoMixedAlphabetRunBuilds ==
    (\E i \in DOMAIN ingested, j \in DOMAIN ingested :
        /\ SymbolClass(ingested[i]) = "numeric"
        /\ SymbolClass(ingested[j]) = "alphabetic")
    => ~EdgePhase

\* C3: a record whose first symbol passed the alphabet check is accepted iff
\* its length is strictly greater than L.  A record of length <= L aborts the
\* run and adds nothing to the table of terminal k-mers; a record of length
\* L + 1 (or more) is accepted, and l = its first L symbols, r = its last L
\* symbols are stored at the table position equal to its contig id.
C3_LengthCheck ==
    /\ Len(contigs) <= Len(ingested)
    /\ \A i \in DOMAIN ingested :
        /\ i <= Len(contigs) <=> Len(ingested[i]) > L
        /\ i <= Len(contigs) =>
            /\ contigs[i].l = Prefix(ingested[i], L)
            /\ contigs[i].r = Suffix(ingested[i], L)
        /\ i > Len(contigs) =>
            /\ i = Len(ingested)
            /\ pc = "aborted"
            /\ err = "short"
    /\ err = "short" => Len(ingested) = Len(contigs) + 1

C3_Witness ==
    /\ L >= 1
    /\ pc = "aborted"
    /\ err = "short"
    /\ Len(contigs) = 1
    /\ Len(ingested[1]) = L + 1
    /\ contigs[1].l # contigs[1].r
    /\ Len(ingested[2]) = L

FatalErrors == {"config", "alphabet", "short", "truncated"}

CleanRun ==
    /\ k > 0
    /\ err \notin FatalErrors
    /\ pending = 0
    /\ reading = FALSE
    /\ eofs = {TRUE}
    /\ Len(contigs) = Len(ingested)
    /\ \A i \in DOMAIN ingested : Len(ingested[i]) > L

\* A record is given an id only if it is the first of its source or its first
\* symbol is of the class detected for the source.
RecordPassedAlphabetCheck ==
    ingested' # ingested =>
        \/ count = 0
        \/ SymbolClass(ingested'[Len(ingested')])
                = (IF colourSpace THEN "numeric" ELSE "alphabetic")

NothingBuiltAfterFatalError ==
    err \in FatalErrors =>
        /\ UNCHANGED <<ends, indexed, visited, g, written>>
        /\ written = FALSE

PhaseSteps ==
    {<<"parse", "setup">>, <<"parse", "failed">>, <<"parse", "exited">>,
     <<"setup", "ingest">>, <<"ingest", "lock">>, <<"ingest", "aborted">>,
     <<"lock", "index">>, <<"index", "connect">>, <<"connect", "output">>,
     <<"output", "done">>, <<"output", "aborted">>}

PhaseStep ==
    /\ pc' # pc => <<pc, pc'>> \in PhaseSteps
    /\ (ingested' # ingested \/ g'.vp # g.vp \/ contigs' # contigs) =>
        /\ pc = "ingest"
        /\ locked = FALSE
        /\ locked' = FALSE
        /\ kmerLength = Overlap(k)
        /\ indexed = {}
        /\ visited = {}
    /\ locked => locked'
    /\ locked' # locked => pc = "lock" /\ indexed = {} /\ visited = {}
    /\ (indexed' # indexed \/ Keys(ends'[0]) # Keys(ends[0])
                           \/ Keys(ends'[1]) # Keys(ends[1])) =>
        /\ locked
        /\ pc \in {"index", "connect"}
    /\ indexed' # indexed => pc = "index" /\ visited = {}
    /\ (visited' # visited \/ \E u \in DOMAIN g.out : g'.out[u] # g.out[u]) =>
        /\ pc = "connect"
        /\ indexed = 0..(Len(contigs) - 1)
        /\ indexed' = indexed

\* C5: the phases INGEST, LOCK, INDEX, CONNECT are passed in that order, each
\* at most once: the k-mer length is set before a record is ingested; no
\* vertex is added and the table of terminal k-mers is not modified once the
\* id space is locked; no index insertion happens before the lock; no edge is
\* added and the index is not probed before the indexing loop has processed
\* every contig.
C5_PhaseOrder == [][PhaseStep]_vars

C5_Witness ==
    /\ pc = "done"
    /\ locked
    /\ Len(contigs) = 2
    /\ \E u \in Vertices(g) : Len(g.out[u]) >= 1

IndexKept == pc = "connect" => ends' = ends

\* C6: the overlap index is immutable during the edge phase: from the first
\* probe to the last added edge both mappings keep the key set and the
\* candidate lists they had when the indexing loop finished, also when the
\* probed k-mer is not a key of the probed mapping.
C6_IndexImmutableInEdgePhase == [][IndexKept]_vars

\* C7: for every k accepted by the configuration check and every edge of the
\* graph, get(edge_distance, g, e) is -(k-1) as a signed integer, the same for
\* all edges, although computed as -k + 1 on the unsigned k modulo 2^32.
C7_EdgeDistance ==
    \A u \in DOMAIN g.out :
        \A n \in DOMAIN g.out[u] : Distance(k) = -(k - 1)

C7_Witness ==
    /\ pc = "done"
    /\ k = MaxK
    /\ \E u \in Vertices(g) : Len(g.out[u]) >= 1
    /\ Distance(k) < 0

\* The build in the order of the source: the index after the indexing loop
\* has run over the positions i, ..., n - 1 of the table, starting from e.
RECURSIVE IndexAll(_, _, _)
IndexAll(e, i, table) ==
    IF i >= Len(table) THEN e
    ELSE IndexAll(IndexInsert(e, i, table[i + 1]), i + 1, table)

InOrderTargets(u) ==
    LET e     == IndexAll([i \in {0, 1} |-> EmptyMap], 0, contigs)
        kmer  == ProbeKmer(u, contigs[u.id + 1])
        edges == Subscript(e[ProbeIndex(u)], kmer)[kmer]
    IN  [n \in 1..Len(edges) |-> EdgeTarget(edges[n], u)]

\* C8: whatever order the indexing loop visits the contigs in and the edge
\* loop visits the vertices in, a run over the same records with the same k
\* ends with the same vertex set and the same multiset of edges: those of
\* the run that visits them in the order of the source.
C8_OrderIndependent ==
    pc = "done" =>
        /\ g.vp = [i \in DOMAIN ingested |-> Len(ingested[i])]
        /\ DOMAIN g.out = Vertices(g)
        /\ \A u \in Vertices(g) :
            BagOfSeq(g.out[u]) = BagOfSeq(InOrderTargets(u))

C8_Witness ==
    /\ pc = "done"
    /\ \E u \in Vertices(g) :
        /\ Len(g.out[u]) >= 2
        /\ g.out[u] # InOrderTargets(u)

\* C9: the final graph is closed under reverse complementation of edges:
\* u -> v is an edge iff flip(v) -> flip(u) is an edge.
C9_ComplementClosed ==
    pc = "done" =>
        \A u \in Vertices(g), v \in Vertices(g) :
            HasEdge(u, v) <=> HasEdge(Flip(v), Flip(u))

C9_Witness ==
    /\ pc = "done"
    /\ \E u \in Vertices(g), v \in Vertices(g) :
        /\ HasEdge(u, v)
        /\ u.id # v.id
        /\ u.sense # v.sense
        /\ ~HasEdge(v, u)

\* C10: no two edges have the same source and the same target: an oriented
\* node occurs at most once in the candidate list of a key, and the number
\* of outgoing edges of a visited vertex u is the length of the candidate
\* list of its probing k-mer.
C10_NoParallelEdges ==
    /\ \A i \in {0, 1} : \A key \in Keys(ends[i]) : NoDuplicates(ends[i][key])
    /\ \A u \in DOMAIN g.out : NoDuplicates(g.out[u])
    /\ EdgePhase =>
        \A u \in Vertices(g) :
            LET kmer == ProbeKmer(u, contigs[u.id + 1])
            IN  /\ u \in visited =>
                    /\ kmer \in Keys(ends[ProbeIndex(u)])
                    /\ Len(g.out[u]) = Len(ends[ProbeIndex(u)][kmer])
                /\ u \notin visited => g.out[u] = <<>>

C10_Witness ==
    /\ pc = "done"
    /\ \E u \in Vertices(g) :
        /\ Len(g.out[u]) = 4
        /\ u.sense

====
